---- MODULE Spec2Model ----
(***************************************************************************)
(* Model of src/app.py: the sequence generator page.                       *)
(*                                                                         *)
(* The three engine functions (generate_arithmetic_sequence,               *)
(* generate_geometric_sequence, calculate_geometric_series_sum) are        *)
(* operators; the page (main) is a state machine whose state is the value  *)
(* of each widget and what the last run of the script put on the page.     *)
(*                                                                         *)
(* Numbers are integers: the model covers the integer-valued inputs of the *)
(* page, on which Python's arithmetic is exact.  Rounding and overflow of  *)
(* binary floating point are outside the model.                            *)
(***************************************************************************)
EXTENDS Integers, Sequences, FiniteSets, TLC

VARIABLES
    sequence_type,      \* st.selectbox "Choose Sequence Type"
    first_term,         \* st.number_input "First Term"
    common_difference,  \* st.number_input "Common Difference", None for Geometric
    common_ratio,       \* st.number_input "Common Ratio", None for Arithmetic
    num_terms,          \* st.number_input "Number of Terms"
    called,             \* engine functions called by the last run
    raised,             \* exception raised by the last run ("None" if none)
    errors,             \* st.error messages of the last run
    sequence,           \* the generated terms
    sequence_sum,       \* the computed sum
    success,            \* st.success messages: the textual rendering
    metrics,            \* st.metric values of "Sequence Details"
    sequence_data,      \* rows of the st.dataframe table
    csv_data            \* rows written by csv.writer

vars == <<sequence_type, first_term, common_difference, common_ratio, num_terms,
          called, raised, errors, sequence, sequence_sum, success, metrics,
          sequence_data, csv_data>>

inputs == <<sequence_type, first_term, common_difference, common_ratio, num_terms>>

outputs == <<called, raised, errors, sequence, sequence_sum, success, metrics,
             sequence_data, csv_data>>

-----------------------------------------------------------------------------
(* Program constants *)

MAX_TERMS == 1000
INLINE_LIMIT == 50
PREVIEW_TERMS == 10
DEFAULT_FIRST_TERM == 1
DEFAULT_DIFFERENCE == 1
DEFAULT_RATIO == 2
DEFAULT_TERMS == 10

None == "None"

(* Bounds of the model *)

MaxAbs == 3       \* first term and step range over -MaxAbs..MaxAbs
MaxSmallTerms == 6 \* term counts -1..MaxSmallTerms, plus the boundary counts
MaxExp == 12      \* largest term count generated with a ratio of magnitude > 1

Numbers == (-MaxAbs)..MaxAbs

\* The term counts tried: the small ones (zero and a negative one included),
\* the default, and both sides of each limit of the page.
TermCounts ==
    ((-1)..MaxSmallTerms)
        \cup {DEFAULT_TERMS, INLINE_LIMIT, INLINE_LIMIT + 1, MAX_TERMS, MAX_TERMS + 1}

Abs(x) == IF x < 0 THEN -x ELSE x

\* Inputs whose powers stay within the integers of the model checker.
InModelRange(r, n) == Abs(r) <= 1 \/ n <= MaxExp

-----------------------------------------------------------------------------
(* Python primitives *)

\* Mutant of Range: range(n + 1).
Range_inclusive(n) == [k \in 1..(IF n >= 0 THEN n + 1 ELSE 0) |-> k - 1]

\* range(n): 0, 1, ..., n-1; empty when n <= 0.
Range(n) == [k \in 1..(IF n > 0 THEN n ELSE 0) |-> k - 1]

\* b ** e for integers, e >= 0 (0 ** 0 is 1).
RECURSIVE Pow(_, _)
Pow(b, e) ==
    IF e = 0 THEN 1
    ELSE LET h == Pow(b, e \div 2)
         IN  IF e % 2 = 0 THEN h * h ELSE h * h * b

\* sum(seq): 0 plus the terms.  Integer addition is associative, so the
\* terms are added by halves, which keeps the evaluation shallow.
RECURSIVE SumRange(_, _, _)
SumRange(seq, lo, hi) ==
    IF lo > hi THEN 0
    ELSE IF lo = hi THEN seq[lo]
    ELSE LET mid == (lo + hi) \div 2
         IN  SumRange(seq, lo, mid) + SumRange(seq, mid + 1, hi)

\* Mutant of Sum: the last term is left out.
Sum_short(seq) == 0 + SumRange(seq, 1, Len(seq) - 1)

Sum(seq) == 0 + SumRange(seq, 1, Len(seq))

\* x / y: raises ZeroDivisionError when y is 0.  On the inputs of the model
\* the division is exact, so the quotient is the integer quotient.
TrueDiv(x, y) ==
    IF y = 0 THEN [raised |-> "ZeroDivisionError", value |-> 0]
    ELSE [raised |-> None,
          value |-> IF y > 0 THEN x \div y ELSE (-x) \div (-y)]

\* seq[start:stop] with Python's handling of negative and out-of-range indices.
Clamp(i, n) == IF i < 0 THEN (IF i + n < 0 THEN 0 ELSE i + n)
               ELSE (IF i > n THEN n ELSE i)

Slice(seq, start, stop) ==
    LET lo == Clamp(start, Len(seq))
        hi == Clamp(stop, Len(seq))
    IN  IF hi <= lo THEN <<>> ELSE SubSeq(seq, lo + 1, hi)

\* seq[i] with Python's negative indices; IndexError when out of range.
Index(seq, i) ==
    LET k == IF i < 0 THEN i + Len(seq) ELSE i
    IN  IF k < 0 \/ k >= Len(seq) THEN [raised |-> "IndexError", value |-> 0]
        ELSE [raised |-> None, value |-> seq[k + 1]]

\* str(term) of an integer.
Str(x) == ToString(x)

\* sep.join(strs)
RECURSIVE Join(_, _)
Join(sep, strs) ==
    IF Len(strs) = 0 THEN ""
    ELSE IF Len(strs) = 1 THEN strs[1]
    ELSE strs[1] \o sep \o Join(sep, Tail(strs))

\* [str(term) for term in seq]
StrList(seq) == [k \in 1..Len(seq) |-> Str(seq[k])]

\* f"{x:.6f}" of an integer.
Format6f(x) == Str(x) \o ".000000"

-----------------------------------------------------------------------------
(* The engine *)

\* Mutant of generate_arithmetic_sequence: positions counted from 1.
generate_arithmetic_sequence_from_one(a, d, n) ==
    LET r == Range(n)
    IN  [k \in 1..Len(r) |-> a + ((r[k] + 1) * d)]

generate_arithmetic_sequence(a, d, n) ==
    LET r == Range(n)
    IN  [k \in 1..Len(r) |-> a + (r[k] * d)]

\* Mutant of generate_geometric_sequence: the product is raised to the power.
generate_geometric_sequence_power_of_product(a, q, n) ==
    LET r == Range(n)
    IN  [k \in 1..Len(r) |-> Pow(a * q, r[k])]

generate_geometric_sequence(a, q, n) ==
    LET r == Range(n)
    IN  [k \in 1..Len(r) |-> a * Pow(q, r[k])]

\* Mutants of calculate_geometric_series_sum: no special case for a ratio of
\* 1; the ratio raised to n - 1; the ratio raised to n + 1.
calculate_geometric_series_sum_general_only(a, q, n) ==
    TrueDiv(a * (1 - Pow(q, n)), 1 - q)

calculate_geometric_series_sum_one_less(a, q, n) ==
    IF q = 1 THEN [raised |-> None, value |-> a * n]
    ELSE TrueDiv(a * (1 - Pow(q, IF n > 0 THEN n - 1 ELSE 0)), 1 - q)

calculate_geometric_series_sum_one_more(a, q, n) ==
    IF q = 1 THEN [raised |-> None, value |-> a * (n + 1)]
    ELSE TrueDiv(a * (1 - Pow(q, n + 1)), 1 - q)

calculate_geometric_series_sum(a, q, n) ==
    IF q = 1 THEN [raised |-> None, value |-> a * n]
    ELSE TrueDiv(a * (1 - Pow(q, n)), 1 - q)

-----------------------------------------------------------------------------
(* The page: main() *)

SequenceTypes == {"Arithmetic", "Geometric"}

\* A run of the script that shows no result: the button was not clicked.
Cleared ==
    /\ called' = {}
    /\ raised' = None
    /\ errors' = <<>>
    /\ sequence' = <<>>
    /\ sequence_sum' = 0
    /\ success' = <<>>
    /\ metrics' = <<>>
    /\ sequence_data' = <<>>
    /\ csv_data' = <<>>

Init ==
    /\ sequence_type = "Arithmetic"
    /\ first_term = DEFAULT_FIRST_TERM
    /\ common_difference = DEFAULT_DIFFERENCE
    /\ common_ratio = None
    /\ num_terms = DEFAULT_TERMS
    /\ called = {}
    /\ raised = None
    /\ errors = <<>>
    /\ sequence = <<>>
    /\ sequence_sum = 0
    /\ success = <<>>
    /\ metrics = <<>>
    /\ sequence_data = <<>>
    /\ csv_data = <<>>

\* The selectbox changes: the step widget of the other kind is created anew
\* with its default value.
SelectType(t) ==
    /\ t # sequence_type
    /\ sequence_type' = t
    /\ IF t = "Arithmetic"
       THEN common_difference' = DEFAULT_DIFFERENCE /\ common_ratio' = None
       ELSE common_ratio' = DEFAULT_RATIO /\ common_difference' = None
    /\ UNCHANGED <<first_term, num_terms>>
    /\ Cleared

SetFirstTerm(v) ==
    /\ first_term' = v
    /\ UNCHANGED <<sequence_type, common_difference, common_ratio, num_terms>>
    /\ Cleared

SetCommonDifference(v) ==
    /\ sequence_type = "Arithmetic"
    /\ common_difference' = v
    /\ UNCHANGED <<sequence_type, first_term, common_ratio, num_terms>>
    /\ Cleared

SetCommonRatio(v) ==
    /\ sequence_type # "Arithmetic"
    /\ common_ratio' = v
    /\ UNCHANGED <<sequence_type, first_term, common_difference, num_terms>>
    /\ Cleared

\* The handler validates the count it is handed, so the model hands it counts
\* on both sides of the widget's limits.
SetNumTerms(v) ==
    /\ num_terms' = v
    /\ UNCHANGED <<sequence_type, first_term, common_difference, common_ratio>>
    /\ Cleared

\* Mutants of Validate: zero is let through; the upper limit is not checked.
Validate_zero_allowed(n) ==
    IF n < 0 THEN "Number of terms must be a positive integer."
    ELSE IF n > MAX_TERMS
         THEN "Number of terms cannot exceed 1000 for performance reasons."
         ELSE None

Validate_no_upper_limit(n) ==
    IF n <= 0 THEN "Number of terms must be a positive integer." ELSE None

\* The two range checks: the message of the failing check, None when both pass.
Validate(n) ==
    IF n <= 0 THEN "Number of terms must be a positive integer."
    ELSE IF n > MAX_TERMS
         THEN "Number of terms cannot exceed 1000 for performance reasons."
         ELSE None

\* Mutant of Rendering: the inline form only below the limit.
Rendering_below_limit(seq) ==
    IF Len(seq) < INLINE_LIMIT
    THEN << "**Sequence:** " \o Join(", ", StrList(seq)) >>
    ELSE << "**First 10 terms:** "
                \o Join(", ", StrList(Slice(seq, 0, PREVIEW_TERMS))),
            "**Last 10 terms:** "
                \o Join(", ", StrList(Slice(seq, -PREVIEW_TERMS, Len(seq)))) >>

\* The textual rendering of the sequence.
Rendering(seq) ==
    IF Len(seq) <= INLINE_LIMIT
    THEN << "**Sequence:** " \o Join(", ", StrList(seq)) >>
    ELSE << "**First 10 terms:** "
                \o Join(", ", StrList(Slice(seq, 0, PREVIEW_TERMS))),
            "**Last 10 terms:** "
                \o Join(", ", StrList(Slice(seq, -PREVIEW_TERMS, Len(seq)))) >>

\* The table of the expander, positions counted from 1.
Table(seq) == [k \in 1..Len(seq) |-> [position |-> k, value |-> seq[k]]]

\* The rows of the CSV: the header, then one row per term.
Csv(seq) ==
    << <<"Term Position", "Term Value">> >> \o [k \in 1..Len(seq) |-> <<k, seq[k]>>]

ErrorMessage(e) ==
    "An error occurred while generating the sequence: "
        \o (IF e = "ZeroDivisionError" THEN "division by zero"
            ELSE "list index out of range")

\* A click on "Generate Sequence": the whole handler.
Generate ==
    /\ IF sequence_type = "Arithmetic" THEN TRUE
       ELSE InModelRange(common_ratio, num_terms)
    /\ UNCHANGED inputs
    /\ IF Validate(num_terms) # None
       THEN /\ errors' = << Validate(num_terms) >>
            /\ called' = {}
            /\ raised' = None
            /\ sequence' = <<>>
            /\ sequence_sum' = 0
            /\ success' = <<>>
            /\ metrics' = <<>>
            /\ sequence_data' = <<>>
            /\ csv_data' = <<>>
       ELSE LET arith == sequence_type = "Arithmetic"
                seq == IF arith
                       THEN generate_arithmetic_sequence(
                                first_term, common_difference, num_terms)
                       ELSE generate_geometric_sequence(
                                first_term, common_ratio, num_terms)
                total == IF arith
                         THEN [raised |-> None, value |-> Sum(seq)]
                         ELSE calculate_geometric_series_sum(
                                  first_term, common_ratio, num_terms)
                first == Index(seq, 0)
                last == Index(seq, -1)
            IN  /\ called' = IF arith THEN {"generate_arithmetic_sequence"}
                             ELSE {"generate_geometric_sequence",
                                   "calculate_geometric_series_sum"}
                /\ sequence' = seq
                /\ IF total.raised # None
                   THEN \* raised before anything is displayed
                        /\ raised' = total.raised
                        /\ errors' = << ErrorMessage(total.raised) >>
                        /\ sequence_sum' = 0
                        /\ success' = <<>>
                        /\ metrics' = <<>>
                        /\ sequence_data' = <<>>
                        /\ csv_data' = <<>>
                   ELSE /\ sequence_sum' = total.value
                        /\ success' = Rendering(seq)
                        /\ IF first.raised # None \/ last.raised # None
                           THEN \* raised by the first metric
                                /\ raised' = "IndexError"
                                /\ errors' = << ErrorMessage("IndexError") >>
                                /\ metrics' = <<>>
                                /\ sequence_data' = <<>>
                                /\ csv_data' = <<>>
                           ELSE /\ raised' = None
                                /\ errors' = <<>>
                                /\ metrics' =
                                       << first.value, last.value,
                                          IF arith THEN Sum(seq)
                                          ELSE Format6f(total.value),
                                          Len(seq) >>
                                /\ sequence_data' = Table(seq)
                                /\ csv_data' = Csv(seq)

Next ==
    \/ \E t \in SequenceTypes : SelectType(t)
    \/ \E v \in Numbers : SetFirstTerm(v)
    \/ \E v \in Numbers : SetCommonDifference(v)
    \/ \E v \in Numbers : SetCommonRatio(v)
    \/ \E v \in TermCounts : SetNumTerms(v)
    \/ Generate

Spec == Init /\ [][Next]_vars

-----------------------------------------------------------------------------
(* The engine on its own: each function applied to inputs the page would   *)
(* reject as well as to those it accepts.                                  *)

EngineInit ==
    /\ sequence_type \in SequenceTypes
    /\ first_term \in Numbers
    /\ num_terms \in TermCounts
    /\ IF sequence_type = "Arithmetic"
       THEN common_difference \in Numbers /\ common_ratio = None
       ELSE common_ratio \in Numbers /\ common_difference = None
    /\ called = {}
    /\ raised = None
    /\ errors = <<>>
    /\ sequence = <<>>
    /\ sequence_sum = 0
    /\ success = <<>>
    /\ metrics = <<>>
    /\ sequence_data = <<>>
    /\ csv_data = <<>>

CallGenerateArithmetic ==
    /\ sequence_type = "Arithmetic"
    /\ called' = {"generate_arithmetic_sequence"}
    /\ sequence' = generate_arithmetic_sequence(
                       first_term, common_difference, num_terms)
    /\ raised' = None
    /\ sequence_sum' = 0
    /\ UNCHANGED <<inputs, errors, success, metrics, sequence_data, csv_data>>

\* The arithmetic sum as main computes it: the sum of the generated terms.
CallArithmeticSum ==
    /\ sequence_type = "Arithmetic"
    /\ called' = {"generate_arithmetic_sequence", "sum"}
    /\ sequence' = generate_arithmetic_sequence(
                       first_term, common_difference, num_terms)
    /\ raised' = None
    /\ sequence_sum' = Sum(sequence')
    /\ UNCHANGED <<inputs, errors, success, metrics, sequence_data, csv_data>>

CallGenerateGeometric ==
    /\ sequence_type = "Geometric"
    /\ InModelRange(common_ratio, num_terms)
    /\ called' = {"generate_geometric_sequence"}
    /\ sequence' = generate_geometric_sequence(first_term, common_ratio, num_terms)
    /\ raised' = None
    /\ sequence_sum' = 0
    /\ UNCHANGED <<inputs, errors, success, metrics, sequence_data, csv_data>>

CallGeometricSeriesSum ==
    /\ sequence_type = "Geometric"
    /\ InModelRange(common_ratio, num_terms)
    /\ num_terms >= 0    \* Pow models ** for exponents >= 0 only
    /\ LET total == calculate_geometric_series_sum(
                        first_term, common_ratio, num_terms)
       IN  /\ called' = {"calculate_geometric_series_sum"}
           /\ raised' = total.raised
           /\ sequence_sum' = total.value
    /\ sequence' = <<>>
    /\ UNCHANGED <<inputs, errors, success, metrics, sequence_data, csv_data>>

EngineNext ==
    \/ CallGenerateArithmetic
    \/ CallArithmeticSum
    \/ CallGenerateGeometric
    \/ CallGeometricSeriesSum

EngineSpec == EngineInit /\ [][EngineNext]_vars

-----------------------------------------------------------------------------
(* Properties *)

Generators == {"generate_arithmetic_sequence", "generate_geometric_sequence"}

\* b to the power e by repeated multiplication, e >= 0, with the powers of
\* 0, 1 and -1 written out.
RECURSIVE Product(_, _)
Product(b, e) == IF e = 0 THEN 1 ELSE b * Product(b, e - 1)

Power(b, e) ==
    IF b = 0 THEN (IF e = 0 THEN 1 ELSE 0)
    ELSE IF b = 1 THEN 1
    ELSE IF b = -1 THEN (IF e % 2 = 0 THEN 1 ELSE -1)
    ELSE Product(b, e)

\* The run reached the result display.
Displayed == success # <<>>

\* C1: generate_arithmetic_sequence(a, d, n) with 1 <= n <= 1000 returns
\* exactly n terms, the term at 0-indexed position i being a + i*d; the first
\* term is a and the last a + (n-1)*d.
C1_ArithmeticTerms ==
    ("generate_arithmetic_sequence" \in called /\ num_terms \in 1..1000) =>
        /\ Len(sequence) = num_terms
        /\ \A i \in 0..(num_terms - 1) :
               sequence[i + 1] = first_term + i * common_difference
        /\ sequence[1] = first_term
        /\ sequence[num_terms] = first_term + (num_terms - 1) * common_difference

C1_Witness ==
    /\ called = {"generate_arithmetic_sequence"}
    /\ num_terms = 1000
    /\ common_difference = -2
    /\ sequence[1000] = first_term - 1998

C3_Original ==
    (called \cap Generators # {} /\ num_terms < 1) => raised = "InvalidArgument"

\* C3 amended: called with termCount < 1, both generators raise nothing and
\* return the empty sequence.
C3_EmptyBelowOne ==
    (called \cap Generators # {} /\ num_terms < 1) =>
        raised = None /\ sequence = <<>>

C3_Witness ==
    /\ called = {"generate_geometric_sequence"}
    /\ num_terms = 0
    /\ first_term # 0
    /\ sequence = <<>>

\* C4: calculate_geometric_series_sum(a, r, n) with n >= 1 returns a * n when
\* r is 1 and a * (1 - r^n) / (1 - r) otherwise, and never divides by zero.
C4_SeriesSum ==
    (called = {"calculate_geometric_series_sum"} /\ num_terms >= 1) =>
        /\ raised = None
        /\ common_ratio = 1 => sequence_sum = first_term * num_terms
        /\ common_ratio # 1 =>
               /\ 1 - common_ratio # 0
               /\ sequence_sum * (1 - common_ratio)
                      = first_term * (1 - Power(common_ratio, num_terms))

C4_Witness ==
    /\ called = {"calculate_geometric_series_sum"}
    /\ common_ratio = 1
    /\ first_term = 3
    /\ num_terms = 1000
    /\ sequence_sum = 3000

\* C5: for r # 1 and n >= 1 the series sum the page reports for a geometric
\* request is the sum of the terms it displays.
C5_GeometricSumOfTerms ==
    (Displayed /\ sequence_type = "Geometric") =>
        (common_ratio # 1 =>
            /\ num_terms >= 1
            /\ Sum(sequence) = sequence_sum
            /\ metrics[3] = Format6f(Sum(sequence)))

C5_Witness ==
    /\ Displayed
    /\ sequence_type = "Geometric"
    /\ first_term = 2
    /\ common_ratio = 3
    /\ num_terms = 4
    /\ sequence = <<2, 6, 18, 54>>
    /\ sequence_sum = 80

\* C6: the sum reported for an arithmetic request equals the closed form
\* (n / 2) * (2*a + (n-1)*d).
C6_ArithmeticClosedForm ==
    (Displayed /\ sequence_type = "Arithmetic") =>
        /\ 2 * sequence_sum
               = num_terms * (2 * first_term + (num_terms - 1) * common_difference)
        /\ metrics[3] = sequence_sum

C6_Witness ==
    /\ Displayed
    /\ sequence_type = "Arithmetic"
    /\ first_term = 2
    /\ common_difference = 3
    /\ num_terms = 5
    /\ sequence_sum = 40
    /\ metrics[3] = 40

\* C7: when Generate runs with a term count outside 1..1000 it reports an
\* error message and returns: no engine function is called, no result, table
\* or CSV is produced, and the term count is left as it was.
C7_OutOfRangeRejected ==
    [][(Generate /\ num_terms \notin 1..1000) =>
          /\ Len(errors') = 1
          /\ called' = {}
          /\ raised' = None
          /\ sequence' = <<>>
          /\ success' = <<>>
          /\ metrics' = <<>>
          /\ sequence_data' = <<>>
          /\ csv_data' = <<>>
          /\ num_terms' = num_terms]_vars

C7_Witness ==
    /\ num_terms = 1001
    /\ errors = << "Number of terms cannot exceed 1000 for performance reasons." >>
    /\ called = {}
    /\ csv_data = <<>>

\* C8: for termCount = 0 both sums are 0: the sum of the zero generated
\* arithmetic terms, and calculate_geometric_series_sum(a, r, 0) for r = 1 and
\* for r # 1.
C8_ZeroTermsSumZero ==
    num_terms = 0 =>
        /\ "sum" \in called => sequence_sum = 0
        /\ "calculate_geometric_series_sum" \in called =>
               raised = None /\ sequence_sum = 0

C8_Witness ==
    /\ num_terms = 0
    /\ called = {"calculate_geometric_series_sum"}
    /\ common_ratio = 0
    /\ first_term = 3
    /\ sequence_sum = 0

\* C9: the textual rendering is the inline list of all terms, in order, exactly
\* when the sequence has at most 50 terms; from 51 terms on it is the first 10
\* and the last 10 terms, each in order, and not the inline list.
C9_Rendering ==
    Displayed =>
        LET n == Len(sequence)
            head == [i \in 1..10 |-> Str(sequence[i])]
            tail == [i \in 1..10 |-> Str(sequence[n - 10 + i])]
        IN  IF n <= 50
            THEN success = << "**Sequence:** " \o Join(", ", StrList(sequence)) >>
            ELSE success = << "**First 10 terms:** " \o Join(", ", head),
                              "**Last 10 terms:** " \o Join(", ", tail) >>

C9_Witness ==
    /\ Len(sequence) = 51
    /\ sequence_type = "Arithmetic"
    /\ first_term = 1
    /\ common_difference = 1
    /\ success = << "**First 10 terms:** 1, 2, 3, 4, 5, 6, 7, 8, 9, 10",
                    "**Last 10 terms:** 42, 43, 44, 45, 46, 47, 48, 49, 50, 51" >>

\* C10: whenever the result display is reached the sequence is non-empty and
\* has num_terms terms, 1 <= num_terms <= 1000, so First Term and Last Term
\* are defined and Total Terms is the requested count.
C10_DisplayedSequence ==
    Displayed =>
        /\ num_terms \in 1..1000
        /\ Len(sequence) = num_terms
        /\ raised = None
        /\ errors = <<>>
        /\ Len(metrics) = 4
        /\ metrics[1] = sequence[1]
        /\ metrics[2] = sequence[Len(sequence)]
        /\ metrics[4] = num_terms

C10_Witness ==
    /\ Displayed
    /\ num_terms = 1000
    /\ sequence_type = "Geometric"
    /\ common_ratio = -1
    /\ first_term = 3
    /\ metrics[1] = 3
    /\ metrics[2] = -3
    /\ metrics[4] = 1000

====
